---- MODULE Spec2Model ----
(***************************************************************************)
(* Green-thread futures (greenthread-future): a closure runs on a stack    *)
(* that lives in the same 0x2000-aligned block as its Thread Control Block *)
(* (TCB); ThreadFuture::poll switches into it, yield_now / park switch     *)
(* back.  The model follows src/lib.rs and the x86_64 port.                *)
(*                                                                         *)
(* One future is one block: the TCB fields (context_ptr, waker, canary,    *)
(* state) at the block's base and the green thread's stack below its top.  *)
(* The executor, the wakers it hands out and the party that holds waker    *)
(* clones are the environment of the library.                              *)
(***************************************************************************)
EXTENDS Integers, Sequences, FiniteSets, TLC

VARIABLES
    given,        \* the closure each future was built from (ThreadFuture::from's argument)
    state,        \* TCB.state of each future: Ready(f) | Running | Exited(ret) | Invalid
    context_ptr,  \* TCB.context_ptr of each future: an address, 0 is null
    waker,        \* TCB.waker of each future: << >> is None, <<w>> is Some(w)
    canary,       \* TCB.canary of each future
    sp,           \* the green thread's stack pointer (while it runs; 0 before it exists)
    tpc,          \* the green thread's program counter (saved rip while it is suspended)
    frame,        \* the locals of entry on the green thread's stack: the closure and its position
    live,         \* the ThreadFuture has not been dropped
    polling,      \* the executor thread inside poll of this future, 0 when none is
    running,      \* during a poll: which side of the switch executes, "executor" or "thread"
    notified,     \* executor: the task is scheduled for a poll
    results,      \* executor: what each poll of the future returned, in order
    held,         \* clones of wakers an external party holds (a bag)
    out,          \* the lines printed so far
    started,      \* how often entry moved the closure out of Ready(f)
    wakes,        \* how often the future itself called wake_by_ref
    released,     \* how often the closure / the return value was dropped, consumed or moved out
    fatal,        \* the panic that stopped the process, "none" while it runs
    size,         \* size_of::<State<F, T>>() of each future, in bytes
    boot,         \* the last size_of::<ThreadContext>() bytes of the block, as the first switch finds them
    hit           \* the TCB fields the green thread's stack writes have overwritten

tcb   == <<state, context_ptr, waker, canary>>
green == <<sp, tpc, frame>>
env   == <<given, notified, results, held, out>>
ghost == <<started, wakes, released>>
mem   == <<size, boot, hit>>
vars  == <<given, state, context_ptr, waker, canary, sp, tpc, frame, live, polling, running,
           notified, results, held, out, started, wakes, released, fatal, size, boot, hit>>

(***************************************************************************)
(* Bounds and the sets inputs are drawn from                               *)
(***************************************************************************)
\* The longest closure body, in calls of yield_now / park / current_waker.
MaxLen == 2

Futs == {1, 2}
Execs == {1, 2}
Vals == {1, 2}

\* What a closure body may call.
CoreOps == {"yield", "park", "waker"}

RECURSIVE SeqsUpTo(_, _)
SeqsUpTo(S, n) ==
    IF n = 0 THEN {<< >>}
    ELSE LET shorter == SeqsUpTo(S, n - 1)
         IN  shorter \cup {Append(s, x) : s \in {q \in shorter : Len(q) = n - 1}, x \in S}

\* The body of the closures of tests::test: print, yield_now, print.
TestOps == <<"print", "yield", "print">>
\* The body of the closure of tests::sleep_and_wake: current_waker (handed to a timer), park.
SleepAndWakeOps == <<"waker", "park">>

Bodies == SeqsUpTo(CoreOps, MaxLen) \cup {TestOps, SleepAndWakeOps}
Closures == [ops : Bodies, ret : Vals]
\* The closures of the tests.
TestClosures == [ops : {TestOps, SleepAndWakeOps}, ret : Vals]
NoClosure == [ops |-> << >>, ret |-> 0]

\* No future is polled more often than once per suspension of its closure, once
\* more to its end, and once after that.
MaxPolls == 2 + CHOOSE n \in 0..8 : \A b \in Bodies : Len(b) <= n /\ \E c \in Bodies : Len(c) = n

(***************************************************************************)
(* Layout: x86_64                                                          *)
(***************************************************************************)
WORD == 8
RAW_SIZE == 8192
\* ThreadContext: rbx, rbp, r12, r13, r14, r15, rip.
CtxWords == 7
CtxSize == CtxWords * WORD
\* 0xcafebabe_deadbeaf, in 16-bit limbs.
CANARY == <<51966, 47806, 57005, 48815>>

\* Where the blocks of the futures lie: each aligned to its size.
Base(i) == (i + 1) * RAW_SIZE
Top(i) == Base(i) + RAW_SIZE
\* The stack pointer of executor thread t where poll calls switch.
ExecSp(t) == (Cardinality(Futs) + 2 + 2 * t) * RAW_SIZE + RAW_SIZE \div 2 + WORD
\* How deep below the top of its block a green thread works: a shallow and a deep frame.
Depths == {2 * WORD, RAW_SIZE \div 2}

\* The fields of the TCB (#[repr(C)]: in declaration order) and where each starts
\* in the block; Option<Waker> is two words.
Fields == {"context_ptr", "waker", "canary", "state"}
WakerOff == WORD
CanaryOff == 3 * WORD
StateOff == 4 * WORD
FieldLo(i, f) ==
    Base(i) + (CASE f = "context_ptr" -> 0
                 [] f = "waker" -> WakerOff
                 [] f = "canary" -> CanaryOff
                 [] f = "state" -> StateOff)
FieldHi(i, f) ==
    Base(i) + (CASE f = "context_ptr" -> WakerOff
                 [] f = "waker" -> CanaryOff
                 [] f = "canary" -> StateOff
                 [] f = "state" -> StateOff + size[i])

\* The fields of the TCB of block i that the bytes [lo, hi) overlap.
Overlap(i, lo, hi) == {f \in Fields : lo < FieldHi(i, f) /\ FieldLo(i, f) < hi}

\* The closures of the tests capture nothing and return a u32 or (): their
\* state field is one word.
SmallSize == WORD
\* The sizes a state field is given: one word; the largest that leaves the last
\* size_of::<ThreadContext>() bytes of the block free; the largest with which the
\* TCB is no larger than the block; one word more.
Sizes == {SmallSize, RAW_SIZE - StateOff - CtxSize, RAW_SIZE - StateOff,
          RAW_SIZE - StateOff + WORD}

\* size_of::<ThreadFuture<F, T>>() for a state field of sz bytes: the larger of
\* the union's fields, rounded up to the alignment.
size_of_Self(sz) ==
    LET t == StateOff + sz
        m == IF t > RAW_SIZE THEN t ELSE RAW_SIZE
    IN  ((m + RAW_SIZE - 1) \div RAW_SIZE) * RAW_SIZE

\* The assertion of ThreadFuture::from.
size_ok(sz) == size_of_Self(sz) = RAW_SIZE

\* ThreadContext: the callee-saved registers and the resumption address.
CalleeSaved == {"rbx", "rbp", "r12", "r13", "r14", "r15"}
\* What a word of memory that from does not initialise may hold.
PriorWords == {0, 1}
\* The last size_of::<ThreadContext>() bytes of a block whose words hold w.
Prior(w) == [regs |-> [r \in CalleeSaved |-> w], rip |-> "stale"]

\* ThreadContext::set_pc.
set_pc(ctx, pc) == [ctx EXCEPT !.rip = pc]

\* The waker the executor passes to the n-th poll of future i; a wake of any of
\* them schedules task i.
Waker(i, n) == <<i, n>>
Wakers == {Waker(i, n) : i \in Futs, n \in 1..MaxPolls}

(***************************************************************************)
(* State<F, T>                                                             *)
(***************************************************************************)
Ready(f)   == [tag |-> "Ready",   f |-> f,         ret |-> 0]
Running    == [tag |-> "Running", f |-> NoClosure, ret |-> 0]
Exited(v)  == [tag |-> "Exited",  f |-> NoClosure, ret |-> v]
Invalid    == [tag |-> "Invalid", f |-> NoClosure, ret |-> 0]

\* A variant of take_ret that never finds a return value.
take_ret_none(s) == [ret |-> << >>, state |-> s]

\* A variant of take_ret that copies the return value and leaves it in place.
take_ret_keep(s) ==
    IF s.tag = "Exited" THEN [ret |-> <<s.ret>>, state |-> s]
    ELSE [ret |-> << >>, state |-> s]

\* A variant of take_ret that leaves Running behind, not Invalid.
take_ret_running(s) ==
    IF s.tag = "Exited" THEN [ret |-> <<s.ret>>, state |-> Running]
    ELSE [ret |-> << >>, state |-> s]

\* State::take_ret: the return value if the state is Exited, leaving Invalid.
take_ret(s) ==
    IF s.tag = "Exited" THEN [ret |-> <<s.ret>>, state |-> Invalid]
    ELSE [ret |-> << >>, state |-> s]

\* A variant of from that leaves the canary field zero.
from_no_canary(f) ==
    [context_ptr |-> 0, waker |-> << >>, canary |-> <<0, 0, 0, 0>>, state |-> Ready(f)]

\* ThreadFuture::from.
from(f) == [context_ptr |-> 0, waker |-> << >>, canary |-> CANARY, state |-> Ready(f)]

(***************************************************************************)
(* Arch port and self-location                                             *)
(***************************************************************************)
\* A variant of switch that leaves the cell as it was.
switch_no_store(ptr, s) == [slot |-> ptr, resume |-> ptr]

\* A variant of switch that stores the stack pointer in the cell before it
\* pushes the caller's record.
switch_early_store(ptr, s) == [slot |-> s, resume |-> ptr]

\* ThreadContext::switch called at stack pointer s on the cell holding ptr: the
\* caller's record is pushed below s and its address stored in the cell; the
\* record the cell held is popped and resumed.
switch(ptr, s) == [slot |-> s - CtxSize, resume |-> ptr]

\* The record at address a is one a green thread of future i can have saved: it
\* lies in the stack of i's block.
thread_record(i, a) == Base(i) < a /\ a + CtxSize <= Top(i)

\* The record at address a is the one poll pushed on executor thread t.
executor_record(t, a) == t \in Execs /\ a = ExecSp(t) - CtxSize

\* The stack pointer after switch has popped the record at address a.
popped(a) == a + CtxSize

\* A variant of mask that clears one bit less than the block's alignment.
mask_narrow(s) == s - (s % (RAW_SIZE \div 2))

\* A variant of mask that clears one bit more than the block's alignment.
mask_wide(s) == s - (s % (2 * RAW_SIZE))

\* sp & !(RAW_SIZE - 1)
mask(s) == s - (s % RAW_SIZE)

\* The future whose block starts at address a, 0 when there is none.
TcbAt(a) == IF \E j \in Futs : Base(j) = a THEN CHOOSE j \in Futs : Base(j) = a ELSE 0

\* TCB::current: the TCB the stack pointer s lies in.
current(s) == TcbAt(mask(s))

\* The assertion of TCB::current on the TCB it found.
canary_ok(c) == c \in Futs /\ canary[c] = CANARY

(***************************************************************************)
(* Stack writes that leave the stack region                                *)
(***************************************************************************)
\* What a field holds after bytes of a stack frame were written over it: the
\* canary no longer its magic value, the state and the waker any value.
JunkCanary == <<0, 0, 0, 0>>
JunkStates == {Running, Invalid} \cup {Exited(v) : v \in Vals}
JunkWakers(i) == {<< >>} \cup {<<Waker(i, n)>> : n \in 1..MaxPolls}
\* A closure whose captured data was overwritten: its code is the same.
JunkClosures(f) == {[f EXCEPT !.ret = v] : v \in Vals}

\* The green thread of future i writes the bytes [lo, hi) of its stack: the TCB
\* fields of its block that lie there are overwritten; st is the state field
\* but for this write.
stack_write(i, lo, hi, st) ==
    LET H == Overlap(i, lo, hi)
    IN  /\ hit' = [hit EXCEPT ![i] = @ \cup H]
        /\ canary' = IF "canary" \in H THEN [canary EXCEPT ![i] = JunkCanary] ELSE canary
        /\ waker' \in IF "waker" \in H THEN {[waker EXCEPT ![i] = w] : w \in JunkWakers(i)}
                      ELSE {waker}
        /\ state' \in IF "state" \in H THEN {[st EXCEPT ![i] = g] : g \in JunkStates}
                      ELSE {st}

(***************************************************************************)
(* Initial state: two futures built by ThreadFuture::from, both spawned.   *)
(* The first runs any closure, the second one of the closures of the tests.*)
(***************************************************************************)
\* The futures built from the closures fs, with state fields of sz bytes, in
\* blocks whose other words held w before.
Built(fs, sz, pw) ==
        /\ given = fs
        /\ size = sz
        /\ boot = [i \in Futs |-> Prior(pw[i])]
        /\ hit = [i \in Futs |-> {}]
        /\ state = [i \in Futs |-> from(fs[i]).state]
        /\ context_ptr = [i \in Futs |-> from(fs[i]).context_ptr]
        /\ waker = [i \in Futs |-> from(fs[i]).waker]
        /\ canary = [i \in Futs |-> from(fs[i]).canary]
        /\ sp = [i \in Futs |-> 0]
        /\ tpc = [i \in Futs |-> "none"]
        /\ frame = [i \in Futs |-> [f |-> NoClosure, ip |-> 0]]
        /\ live = [i \in Futs |-> TRUE]
        /\ polling = [i \in Futs |-> 0]
        /\ running = [i \in Futs |-> "executor"]
        /\ notified = [i \in Futs |-> TRUE]
        /\ results = [i \in Futs |-> << >>]
        /\ held = [w \in Wakers |-> 0]
        /\ out = << >>
        /\ started = [i \in Futs |-> 0]
        /\ wakes = [i \in Futs |-> 0]
        /\ released = [i \in Futs |-> [f |-> 0, ret |-> 0]]
        /\ fatal = "none"

\* Closures whose state field is one word, in blocks that were zeroed before.
Init ==
    \E fs \in {g \in [Futs -> Closures] : g[2] \in TestClosures} :
        Built(fs, [i \in Futs |-> SmallSize], [i \in Futs |-> 0])

\* The first future embeds a state of any size that from accepts, in a block of
\* any prior contents.
InitMem ==
    \E fs \in {g \in [Futs -> TestClosures] : g[2].ret = 2},
       sz \in {z \in Sizes : size_ok(z)}, w \in PriorWords :
        Built(fs, [i \in Futs |-> IF i = 1 THEN sz ELSE SmallSize],
                  [i \in Futs |-> IF i = 1 THEN w ELSE 0])

(***************************************************************************)
(* The executor's side of a waker                                          *)
(***************************************************************************)
\* Waker::wake / wake_by_ref on w: the executor schedules w's task.
wake(w) == [notified EXCEPT ![w[1]] = TRUE]

\* poll has returned Ready for the future.
Done(i) == \E n \in 1..Len(results[i]) : results[i][n].r = "Ready"

Pending == [r |-> "Pending", v |-> 0]
ReadyWith(v) == [r |-> "Ready", v |-> v]

(***************************************************************************)
(* ThreadFuture::poll, up to its switch into the green thread              *)
(***************************************************************************)
\* A variant of first_poll_waker: the first poll stores no waker.
first_poll_no_waker(w) == << >>

\* The waker slot after the first poll, given the waker of the poll's context.
first_poll_waker(w) == <<w>>

\* A variant of later_poll_waker: every poll stores the waker of its context.
later_poll_refresh(old, w) == <<w>>

\* The waker slot after a poll that found the state not Ready, given the slot
\* before and the waker of the poll's context.
later_poll_waker(old, w) == old

\* Where the green thread goes on when the record it saved is popped: out of
\* yield_now / park into the closure, or into entry after its last yield_now.
after_switch(i) ==
    IF tpc[i] \in {"in_yield", "in_park"}
    THEN IF frame[i].ip <= Len(frame[i].f.ops) THEN "body" ELSE "entry_end"
    ELSE tpc[i]

poll(i, t) ==
    /\ fatal = "none" /\ live[i] /\ polling[i] = 0
    /\ \A j \in Futs : polling[j] # t
    /\ LET first == state[i].tag = "Ready"
           context == Top(i) - CtxSize
           ctx == IF first THEN set_pc(boot[i], "entry") ELSE boot[i]
           \* set_pc writes the last word of the block
           H == IF first THEN Overlap(i, Top(i) - WORD, Top(i)) ELSE {}
           ptr == IF first THEN context ELSE context_ptr[i]
           sw == switch(ptr, ExecSp(t))
           pc == IF first THEN ctx.rip ELSE after_switch(i)
       IN  /\ boot' = [boot EXCEPT ![i] = ctx]
           /\ state' \in IF "state" \in H
                         THEN {[state EXCEPT ![i] = g] :
                                  g \in JunkStates \cup {Ready(f) : f \in JunkClosures(state[i].f)}}
                         ELSE {state}
           /\ context_ptr' = [context_ptr EXCEPT ![i] = sw.slot]
           /\ waker' = [waker EXCEPT ![i] =
                           IF first THEN first_poll_waker(Waker(i, Len(results[i]) + 1))
                           ELSE later_poll_waker(@, Waker(i, Len(results[i]) + 1))]
           /\ IF thread_record(i, sw.resume)
              THEN /\ sp' = [sp EXCEPT ![i] = popped(sw.resume)]
                   /\ tpc' = [tpc EXCEPT ![i] = pc]
                   /\ frame' = IF ~first /\ tpc[i] \in {"in_yield", "in_park"} /\ pc = "body"
                               THEN [frame EXCEPT ![i].ip = @ + 1]
                               ELSE frame
                   /\ running' = [running EXCEPT ![i] = "thread"]
                   /\ UNCHANGED fatal
              ELSE \* switch popped what is no saved record of this green thread
                   /\ fatal' = "wild"
                   /\ UNCHANGED <<sp, tpc, frame, running>>
    /\ polling' = [polling EXCEPT ![i] = t]
    /\ notified' = [notified EXCEPT ![i] = FALSE]
    /\ UNCHANGED <<given, canary, live, results, held, out, started, wakes, released, size, hit>>

(***************************************************************************)
(* The green thread: entry, the closure body, the cooperative primitives   *)
(***************************************************************************)
thread_runs(i) == fatal = "none" /\ polling[i] # 0 /\ running[i] = "thread"

\* The closure body is at an operation o.
at_op(i, o) ==
    /\ thread_runs(i) /\ tpc[i] = "body"
    /\ frame[i].ip <= Len(frame[i].f.ops)
    /\ frame[i].f.ops[frame[i].ip] = o

\* A variant of entry_state: the closure is copied out and the state left as it is.
entry_state_kept(s) == s

\* What entry leaves in the state field s when it moves the closure out.
entry_state(s) == Running

\* entry, lines 155-156: locate the TCB, move the closure out of Ready(f) into
\* the frame of entry, which holds the state by value besides its other locals.
entry(i) ==
    /\ thread_runs(i) /\ tpc[i] = "entry"
    /\ \E d \in Depths :
        LET s == sp[i] - d - size[i]
            c == current(s)
            H == Overlap(i, s, sp[i])
        IN  /\ sp' = [sp EXCEPT ![i] = s]
            /\ IF ~canary_ok(c)
               THEN /\ fatal' = "canary"
                    /\ UNCHANGED <<tcb, tpc, frame, started, hit>>
               ELSE IF state[c].tag = "Ready"
               THEN /\ stack_write(i, s, sp[i], [state EXCEPT ![c] = entry_state(state[c])])
                    /\ context_ptr' = IF "context_ptr" \in H THEN [context_ptr EXCEPT ![i] = 0]
                                      ELSE context_ptr
                    /\ frame' \in {[frame EXCEPT ![i] = [f |-> g, ip |-> 1]] :
                                     g \in IF "state" \in H THEN JunkClosures(state[c].f)
                                           ELSE {state[c].f}}
                    /\ started' = [started EXCEPT ![c] = @ + 1]
                    /\ tpc' = [tpc EXCEPT ![i] = "body"]
                    /\ UNCHANGED fatal
               ELSE /\ fatal' = "unreachable"
                    /\ UNCHANGED <<tcb, tpc, frame, started, hit>>
    /\ UNCHANGED <<live, polling, running, env, wakes, released, size, boot>>

\* The k-th line a closure prints is <<i, k>>.
line_no(i) == Cardinality({n \in 1..frame[i].ip : frame[i].f.ops[n] = "print"})

println(i) ==
    /\ at_op(i, "print")
    /\ out' = Append(out, <<i, line_no(i)>>)
    /\ frame' = [frame EXCEPT ![i].ip = @ + 1]
    /\ UNCHANGED <<given, tcb, sp, tpc, live, polling, running, notified, results, held, ghost,
                   fatal, mem>>

\* A variant of yield_wake: yield_now calls no waker.
yield_no_wake(w) == notified

\* The scheduling state after yield_now has called wake_by_ref on the stored waker w.
yield_wake(w) == wake(w)

\* yield_now, lines 173-175: locate the TCB, wake the stored waker.
yield_now(i) ==
    /\ \/ at_op(i, "yield")
       \/ thread_runs(i) /\ tpc[i] = "exit_yield"
    /\ LET c == current(sp[i])
       IN  IF ~canary_ok(c)
           THEN fatal' = "canary" /\ UNCHANGED <<notified, wakes, tpc>>
           ELSE IF waker[c] = << >>
           THEN fatal' = "unwrap" /\ UNCHANGED <<notified, wakes, tpc>>
           ELSE /\ notified' = yield_wake(waker[c][1])
                /\ wakes' = [wakes EXCEPT ![c] = @ + 1]
                /\ tpc' = [tpc EXCEPT ![i] = "yield_switch"]
                /\ UNCHANGED fatal
    /\ UNCHANGED <<given, tcb, sp, frame, live, polling, running, results, held, out, started,
                   released, mem>>

\* A variant of yield_now that returns to its caller without the switch.
yield_now_returns(i) ==
    /\ thread_runs(i) /\ tpc[i] = "yield_switch"
    /\ tpc' = [tpc EXCEPT ![i] = IF frame[i].ip <= Len(frame[i].f.ops) THEN "body"
                                 ELSE "entry_end"]
    /\ frame' = IF frame[i].ip <= Len(frame[i].f.ops) THEN [frame EXCEPT ![i].ip = @ + 1]
                ELSE frame
    /\ UNCHANGED <<tcb, sp, live, polling, running, env, ghost, fatal, mem>>

\* yield_now, line 177: switch back to the executor.
yield_now_switch(i) ==
    /\ thread_runs(i) /\ tpc[i] = "yield_switch"
    /\ LET c == current(sp[i])
           \* the cell is read after the caller's record is pushed
           ptr == IF "context_ptr" \in Overlap(i, sp[i] - CtxSize, sp[i]) THEN 0
                  ELSE context_ptr[c]
           sw == switch(ptr, sp[i])
       IN  /\ stack_write(i, sw.slot, sp[i], state)
           /\ context_ptr' = [context_ptr EXCEPT ![c] = sw.slot]
           /\ fatal' = IF executor_record(polling[i], sw.resume) THEN fatal ELSE "wild"
    /\ tpc' = [tpc EXCEPT ![i] = "in_yield"]
    /\ running' = [running EXCEPT ![i] = "executor"]
    /\ UNCHANGED <<sp, frame, live, polling, env, ghost, size, boot>>

\* A variant of park that wakes the stored waker before it switches, as yield_now does.
park_waking(i) ==
    /\ at_op(i, "park")
    /\ LET c == current(sp[i])
           sw == switch(context_ptr[c], sp[i])
       IN  IF ~canary_ok(c) \/ waker[c] = << >>
           THEN fatal' = "canary" /\ UNCHANGED <<context_ptr, tpc, running, notified, wakes>>
           ELSE /\ context_ptr' = [context_ptr EXCEPT ![c] = sw.slot]
                /\ tpc' = [tpc EXCEPT ![i] = "in_park"]
                /\ running' = [running EXCEPT ![i] = "executor"]
                /\ notified' = wake(waker[c][1])
                /\ wakes' = [wakes EXCEPT ![c] = @ + 1]
                /\ UNCHANGED fatal
    /\ UNCHANGED <<given, state, waker, canary, sp, frame, live, polling, results, held, out,
                   started, released, mem>>

\* park: locate the TCB, switch back to the executor.
park(i) ==
    /\ at_op(i, "park")
    /\ LET c == current(sp[i])
           \* the cell is read after the caller's record is pushed
           ptr == IF "context_ptr" \in Overlap(i, sp[i] - CtxSize, sp[i]) THEN 0
                  ELSE context_ptr[c]
           sw == switch(ptr, sp[i])
       IN  IF ~canary_ok(c)
           THEN fatal' = "canary" /\ UNCHANGED <<tcb, tpc, running, hit>>
           ELSE /\ stack_write(i, sw.slot, sp[i], state)
                /\ context_ptr' = [context_ptr EXCEPT ![c] = sw.slot]
                /\ tpc' = [tpc EXCEPT ![i] = "in_park"]
                /\ running' = [running EXCEPT ![i] = "executor"]
                /\ fatal' = IF executor_record(polling[i], sw.resume) THEN fatal ELSE "wild"
    /\ UNCHANGED <<sp, frame, live, polling, env, ghost, size, boot>>

\* current_waker: locate the TCB, clone the stored waker; the closure hands the
\* clone to an external party.
current_waker(i) ==
    /\ at_op(i, "waker")
    /\ LET c == current(sp[i])
       IN  IF ~canary_ok(c)
           THEN fatal' = "canary" /\ UNCHANGED <<held, frame>>
           ELSE IF waker[c] = << >>
           THEN fatal' = "unwrap" /\ UNCHANGED <<held, frame>>
           ELSE /\ held' = [held EXCEPT ![waker[c][1]] = @ + 1]
                /\ frame' = [frame EXCEPT ![i].ip = @ + 1]
                /\ UNCHANGED fatal
    /\ UNCHANGED <<given, tcb, sp, tpc, live, polling, running, notified, results, out, ghost,
                   mem>>

\* How far down the frames of a function the closure calls may reach: to the
\* lowest byte of the stack region, into the last word of the state field, and
\* through the canary.
DeepTo(i) == {FieldHi(i, "state"), FieldHi(i, "state") - WORD, FieldLo(i, "canary")}

\* The closure calls a function (a recursion, a large local) whose frames reach
\* down to the address lo, and the function returns.
call_deep(i) ==
    /\ thread_runs(i) /\ tpc[i] = "body"
    /\ hit[i] = {}
    /\ \E lo \in DeepTo(i) :
          /\ lo < sp[i]
          /\ stack_write(i, lo, sp[i], state)
    /\ UNCHANGED <<context_ptr, green, live, polling, running, env, ghost, fatal, size, boot>>

\* A variant of entry_last_call: entry ends in park, which switches without a wake.
entry_last_call_park == "yield_switch"

\* Where entry goes on once it has stored Exited(ret): into yield_now (line 162).
entry_last_call == "exit_yield"

\* entry, lines 157-158: the closure returns, its value is stored as Exited(ret).
entry_exit(i) ==
    /\ thread_runs(i) /\ tpc[i] = "body"
    /\ frame[i].ip = Len(frame[i].f.ops) + 1
    /\ LET c == current(sp[i])
       IN  state' = [state EXCEPT ![c] = Exited(frame[i].f.ret)]
    /\ released' = [released EXCEPT ![i].f = @ + 1]
    /\ tpc' = [tpc EXCEPT ![i] = entry_last_call]
    /\ UNCHANGED <<context_ptr, waker, canary, sp, frame, live, polling, running, env,
                   started, wakes, fatal, mem>>

\* entry, line 163: the last yield_now came back.
entry_unreachable(i) ==
    /\ thread_runs(i) /\ tpc[i] = "entry_end"
    /\ fatal' = "unreachable"
    /\ UNCHANGED <<tcb, green, live, polling, running, env, ghost, mem>>

(***************************************************************************)
(* ThreadFuture::poll, after switch has returned                           *)
(***************************************************************************)
poll_return(i) ==
    /\ fatal = "none" /\ polling[i] # 0 /\ running[i] = "executor"
    /\ LET got == take_ret(state[i])
       IN  /\ state' = [state EXCEPT ![i] = got.state]
           /\ results' = [results EXCEPT ![i] =
                            Append(@, IF got.ret = << >> THEN Pending ELSE ReadyWith(got.ret[1]))]
           /\ released' = IF got.ret = << >> THEN released
                          ELSE [released EXCEPT ![i].ret = @ + 1]
    /\ polling' = [polling EXCEPT ![i] = 0]
    /\ UNCHANGED <<given, context_ptr, waker, canary, green, live, running, notified, held, out,
                   started, wakes, fatal, mem>>

(***************************************************************************)
(* Dropping the future; the party that holds waker clones                  *)
(***************************************************************************)
\* What dropping a ThreadFuture in state s drops: the union holds its TCB in a
\* ManuallyDrop and has no Drop implementation.
drop_glue(s) == [f |-> 0, ret |-> 0]

drop(i) ==
    /\ fatal = "none" /\ live[i] /\ polling[i] = 0
    /\ live' = [live EXCEPT ![i] = FALSE]
    /\ released' = [released EXCEPT ![i] = [f |-> @.f + drop_glue(state[i]).f,
                                            ret |-> @.ret + drop_glue(state[i]).ret]]
    /\ UNCHANGED <<tcb, green, polling, running, env, started, wakes, fatal, mem>>

\* The external party calls wake on a clone it holds.
ext_wake(w) ==
    /\ fatal = "none" /\ held[w] > 0
    /\ held' = [held EXCEPT ![w] = @ - 1]
    /\ notified' = wake(w)
    /\ UNCHANGED <<given, tcb, green, live, polling, running, results, out, ghost, fatal, mem>>

(***************************************************************************)
(* Specifications                                                          *)
(***************************************************************************)
ThreadStep ==
    \E i \in Futs :
        \/ entry(i)
        \/ println(i)
        \/ yield_now(i)
        \/ yield_now_switch(i)
        \/ park(i)
        \/ current_waker(i)
        \/ entry_exit(i)

\* An executor that keeps the contract of poll: it polls a future that has not
\* returned Ready, at any time, woken or not, on any of its threads.
poll_pending == \E i \in Futs, t \in Execs : ~Done(i) /\ poll(i, t)

Next ==
    \/ poll_pending
    \/ ThreadStep
    \/ \E i \in Futs : poll_return(i)
    \/ \E w \in Wakers : ext_wake(w)

Spec == Init /\ [][Next]_vars

\* Any use of the future: polls after Ready and drops as well.
poll_any == \E i \in Futs, t \in Execs : poll(i, t)

NextAny ==
    \/ poll_any
    \/ ThreadStep
    \/ \E i \in Futs : entry_unreachable(i)
    \/ \E i \in Futs : poll_return(i)
    \/ \E i \in Futs : drop(i)
    \/ \E w \in Wakers : ext_wake(w)

SpecAny == Init /\ [][NextAny]_vars

\* The executor of the tests (#[tokio::test]: one thread): it polls a task when
\* it has been woken (once at spawn), one task at a time, and does so
\* eventually; code that can run does run; the external party, on a thread of
\* its own, eventually calls wake on a clone it holds.
poll_woken == \E i \in Futs : notified[i] /\ ~Done(i) /\ poll(i, 1)

NextWoken ==
    \/ poll_woken
    \/ ThreadStep
    \/ \E i \in Futs : poll_return(i)
    \/ \E w \in Wakers : ext_wake(w)

FairSpec == Init /\ [][NextWoken]_vars /\ WF_vars(NextWoken)

\* A single-threaded round-robin executor: one poll at a time, the futures that
\* have not finished in turn, the first future first.
rr_turn(i) ==
    /\ ~Done(i)
    /\ \A j \in Futs : polling[j] = 0
    /\ \A j \in Futs \ {i} :
          \/ Done(j)
          \/ Len(results[i]) < Len(results[j])
          \/ Len(results[i]) = Len(results[j]) /\ i < j

poll_rr == \E i \in Futs : rr_turn(i) /\ poll(i, 1)

NextRR ==
    \/ poll_rr
    \/ ThreadStep
    \/ \E i \in Futs : poll_return(i)
    \/ \E w \in Wakers : ext_wake(w)

SpecRR == Init /\ [][NextRR]_vars

\* Any use of the futures by one thread: one poll at a time, of any future, at
\* any time, also after Ready; drops.
poll_one == \E i \in Futs : poll(i, 1)

NextOne ==
    \/ poll_one
    \/ ThreadStep
    \/ \E i \in Futs : entry_unreachable(i)
    \/ \E i \in Futs : poll_return(i)
    \/ \E i \in Futs : drop(i)
    \/ \E w \in Wakers : ext_wake(w)

SpecOne == Init /\ [][NextOne]_vars

\* The same executor; the closures also call functions that need a deep stack.
NextDeep ==
    \/ poll_rr
    \/ ThreadStep
    \/ \E i \in Futs : call_deep(i)
    \/ \E i \in Futs : poll_return(i)
    \/ \E w \in Wakers : ext_wake(w)

SpecDeep == Init /\ [][NextDeep]_vars

\* The same executor; the first future has a state field of any size, in a
\* block that was not zeroed.
SpecMem == InitMem /\ [][NextRR]_vars

(***************************************************************************)
(* Properties                                                              *)
(***************************************************************************)
\* The polls of future i that returned Ready.
ReadyAt(i) == {n \in 1..Len(results[i]) : results[i][n].r = "Ready"}

\* C1: a future polled until poll returns Ready returns the value its closure
\* returns, its closure is started (moved out of Ready by entry) exactly once,
\* and poll returns Ready exactly once, whatever the closure's suspensions.
C1_ReturnsClosureValueOnce ==
    \A i \in Futs :
        /\ started[i] <= 1
        /\ Cardinality(ReadyAt(i)) <= 1
        /\ \A n \in ReadyAt(i) :
              /\ n = Len(results[i])
              /\ results[i][n].v = given[i].ret
              /\ started[i] = 1

\* A closure that yields, then parks, has been polled to Ready.
C1_Witness ==
    \E i \in Futs :
        /\ given[i].ops = <<"yield", "park">>
        /\ results[i] = <<Pending, Pending, ReadyWith(given[i].ret)>>

\* The positions of the yield_now calls in a closure body, and the k-th of them.
YieldsAt(f) == {p \in 1..Len(f.ops) : f.ops[p] = "yield"}
NthYield(f, k) == CHOOSE p \in YieldsAt(f) : Cardinality({q \in YieldsAt(f) : q <= p}) = k
Calls(f, o) == \E p \in 1..Len(f.ops) : f.ops[p] = o

\* C2: a closure that calls yield_now n times and never park is polled n times
\* to Pending, the k-th time suspended inside its k-th yield_now, and then once
\* to Ready, in the very poll in which the closure returns.
C2_PendingPerYieldThenReady ==
    \A i \in Futs :
        ~Calls(given[i], "park") =>
            LET n == Cardinality(YieldsAt(given[i]))
            IN  /\ Len(results[i]) <= n + 1
                /\ \A m \in 1..Len(results[i]) :
                      results[i][m] = IF m <= n THEN Pending ELSE ReadyWith(given[i].ret)
                /\ \A m \in 1..n :
                      (Len(results[i]) = m /\ polling[i] = 0) =>
                          /\ tpc[i] = "in_yield"
                          /\ frame[i].ip = NthYield(given[i], m)
                          /\ state[i].tag = "Running"
                /\ state[i].tag = "Exited" => (polling[i] # 0 /\ Len(results[i]) = n)

\* A closure of two yields has been polled to Pending, Pending, Ready, and a
\* closure of one yield to Pending, Ready.
C2_Witness ==
    /\ given[1].ops = <<"yield", "yield">>
    /\ results[1] = <<Pending, Pending, ReadyWith(given[1].ret)>>
    /\ given[2].ops = TestOps
    /\ results[2] = <<Pending, ReadyWith(given[2].ret)>>

IsPrefix(s, t) == Len(s) <= Len(t) /\ \A n \in 1..Len(s) : s[n] = t[n]

\* The two futures of tests::test: print X.1, yield_now, print X.2, return X.
TestPair ==
    /\ given[1] = [ops |-> TestOps, ret |-> 1]
    /\ given[2] = [ops |-> TestOps, ret |-> 2]

\* C3: the futures of tests::test, polled in turn by a single-threaded
\* round-robin executor, print 1.1, 2.1, 1.2, 2.2 in this order, and each
\* returns Pending on its first poll and Ready with its own value on its second.
C3_InterleavedOutput ==
    TestPair =>
        /\ IsPrefix(out, << <<1, 1>>, <<2, 1>>, <<1, 2>>, <<2, 2>> >>)
        /\ \A i \in Futs : IsPrefix(results[i], <<Pending, ReadyWith(i)>>)
        /\ (\A i \in Futs : Done(i)) => Len(out) = 4

\* Both futures of tests::test have returned Ready and all four lines are printed.
C3_Witness ==
    /\ TestPair
    /\ out = << <<1, 1>>, <<2, 1>>, <<1, 2>>, <<2, 2>> >>
    /\ \A i \in Futs : results[i] = <<Pending, ReadyWith(i)>>

\* The future of tests::sleep_and_wake: it takes current_waker, hands the clone
\* to a party that will call wake, and parks.
SleepAndWake(i) == given[i].ops = SleepAndWakeOps

\* C4: under an executor that polls a task after every wake, also one delivered
\* while the task is being polled, the future of tests::sleep_and_wake returns
\* Pending on its first poll and eventually Ready, whether the wake comes before
\* or after park has switched back.
C4_ParkWakeCompletes ==
    \A i \in Futs :
        SleepAndWake(i) ~> (results[i] = <<Pending, ReadyWith(given[i].ret)>>)

\* The wake has been delivered while the closure has not yet called park.
C4_Witness ==
    \E i \in Futs :
        /\ SleepAndWake(i)
        /\ thread_runs(i) /\ at_op(i, "park")
        /\ held[Waker(i, 1)] = 0 /\ notified[i]

WakersOf(i) == {w \in Wakers : w[1] = i}

\* The future is parked, no poll of it is in progress, it is not scheduled and
\* nobody holds a clone of its waker.
Stalled(i) ==
    /\ polling[i] = 0 /\ tpc[i] = "in_park"
    /\ ~notified[i]
    /\ \A w \in WakersOf(i) : held[w] = 0

\* C5: park calls no waker (the wake count and the schedule are as before it),
\* the poll in which it ran returns Pending, and under an executor that polls
\* only woken tasks a parked future whose waker nobody holds is never polled
\* again: it stays parked, Running.
C5_ParkDoesNotWake ==
    [][\A i \in Futs :
          /\ park(i) => (wakes' = wakes /\ notified' = notified /\ fatal' = "none")
          /\ (poll_return(i) /\ tpc[i] = "in_park") => results'[i] = Append(results[i], Pending)
          /\ Stalled(i) =>
                /\ Stalled(i)'
                /\ results'[i] = results[i]
                /\ state'[i] = Running]_vars

\* A future is parked with no clone of its waker handed out, after its poll returned.
C5_Witness ==
    \E i \in Futs :
        /\ Stalled(i)
        /\ state[i] = Running
        /\ results[i] = <<Pending>>
        /\ wakes[i] = 0

\* C6: every yield_now wakes the stored waker once, while still on the green
\* thread (before its switch), and its switch wakes nothing; so under an
\* executor that polls a task once at spawn and once per wake, every closure
\* that never parks is eventually polled to Ready.
C6_YieldWakesThenSwitches ==
    /\ [][\A i \in Futs :
             /\ yield_now(i) =>
                   /\ wakes'[i] = wakes[i] + 1
                   /\ notified'[i]
                   /\ running'[i] = "thread" /\ context_ptr' = context_ptr
             /\ yield_now_switch(i) =>
                   /\ wakes' = wakes /\ notified' = notified
                   /\ running'[i] = "executor"]_vars
    /\ \A i \in Futs : ~Calls(given[i], "park") ~> Done(i)

\* A closure of two yields has been polled to Ready by the wake-driven executor,
\* and the other future is suspended in a yield_now that has scheduled it.
C6_Witness ==
    /\ given[1].ops = <<"yield", "yield">> /\ Done(1) /\ wakes[1] = 3
    /\ tpc[2] = "in_yield" /\ polling[2] = 0 /\ notified[2]

\* C7: in every sequence of polls of a future, also polls after Ready, poll
\* switches into the green thread only while the state is Ready or Running, and
\* the green thread never comes back from the last yield_now of entry.
C7_EnteredOnlyReadyOrRunning ==
    [][\A i \in Futs :
          /\ (\E t \in Execs : poll(i, t)) => state[i].tag \in {"Ready", "Running"}
          /\ tpc'[i] # "entry_end"]_vars

\* C8: a dropped future has released what it embedded exactly once: dropped in
\* Ready its closure, dropped in Exited its return value, and dropped after
\* poll returned Ready (Invalid) both the closure and the return value are
\* released once and not again.
C8_DropReleasesOnce ==
    \A i \in Futs :
        ~live[i] =>
            /\ state[i].tag = "Ready" => released[i].f = 1
            /\ state[i].tag = "Exited" => released[i].ret = 1
            /\ state[i].tag = "Invalid" => (released[i].f = 1 /\ released[i].ret = 1)

\* C9: whenever the green thread exists (from its first entry on) the waker slot
\* holds a waker, so the unwrap in yield_now and current_waker never fails, also
\* when park or current_waker comes before any yield_now.
C9_WakerStoredBeforeEntry ==
    /\ fatal # "unwrap"
    /\ \A i \in Futs : tpc[i] # "none" => waker[i] # << >>

\* A closure has taken current_waker and is about to park, before any yield_now.
C9_Witness ==
    \E i \in Futs :
        /\ at_op(i, "park")
        /\ wakes[i] = 0
        /\ held[Waker(i, 1)] = 1

\* The TCB fields of a future.
TCBof(i) == <<context_ptr[i], waker[i], canary[i], state[i]>>

\* The step is one of future j: of its poll or of its green thread.
StepOf(j) ==
    \/ \E t \in Execs : poll(j, t)
    \/ entry(j) \/ println(j) \/ yield_now(j) \/ yield_now_switch(j)
    \/ park(j) \/ current_waker(j) \/ entry_exit(j)
    \/ poll_return(j)

\* C10: whatever the interleaving of two futures polled on two executor threads,
\* a step of one future leaves every TCB field of the other unchanged, and each
\* future returns the value of its own closure.
C10_FuturesShareNoState ==
    [][\A i \in Futs :
          /\ \A j \in Futs \ {i} : StepOf(j) => TCBof(i)' = TCBof(i)
          /\ \A n \in 1..Len(results'[i]) :
                results'[i][n].r = "Ready" => results'[i][n].v = given[i].ret]_vars

\* Both futures are inside poll at once, on different executor threads, both
\* green threads running their closures, which return different values.
C10_Witness ==
    /\ polling[1] # 0 /\ polling[2] # 0 /\ polling[1] # polling[2]
    /\ thread_runs(1) /\ thread_runs(2)
    /\ state[1] = Running /\ state[2] = Running
    /\ tpc[1] = "yield_switch" /\ tpc[2] = "yield_switch"
    /\ given[1].ret # given[2].ret

\* C11: once a stack write of the green thread has gone below the stack region
\* (into the state field or the TCB header), the state field is never
\* overwritten with the canary left at its magic value, and the next
\* yield_now, park or current_waker fails the canary assertion: it wakes
\* nothing, switches nowhere and hands out no waker.
C11_OverflowFailsCanary ==
    [][\A i \in Futs :
          /\ "state" \in hit[i] => canary[i] # CANARY
          /\ (hit[i] # {} /\ (yield_now(i) \/ park(i) \/ current_waker(i))) =>
                /\ fatal' = "canary"
                /\ wakes' = wakes /\ notified' = notified /\ held' = held
                /\ running' = running]_vars

\* C12: the state field of a future is Ready(closure) until the green thread
\* exists, and it changes only from Ready to Running in entry, from Running to
\* Exited in entry when the closure has returned, and from Exited to Invalid in
\* take_ret inside poll: no step moves it backwards, skips a step or leaves
\* Invalid, also when the future is polled again after Ready.
C12_StateOnlyForward ==
    [][\A i \in Futs :
          /\ tpc[i] = "none" => state[i] = Ready(given[i])
          /\ state'[i] # state[i] =>
                \/ state[i].tag = "Ready" /\ state'[i] = Running /\ entry(i)
                \/ state[i] = Running /\ state'[i].tag = "Exited" /\ entry_exit(i)
                \/ state[i].tag = "Exited" /\ state'[i] = Invalid /\ poll_return(i)]_vars

\* A future that has been through all four states is polled again: the state
\* is Invalid and the green thread has been switched to.
C12_Witness ==
    \E i \in Futs :
        /\ state[i] = Invalid /\ Done(i) /\ started[i] = 1
        /\ polling[i] # 0 /\ running[i] = "thread"

\* C13: with one poll of a future at a time, context_ptr is the record of the
\* party that is not executing: while the green thread runs, the record poll
\* pushed on the stack of the executor thread that polls; from the switch back
\* on, and between polls, the record the green thread pushed on its own stack,
\* inside the future's block and on no executor's stack; so no switch, of a
\* poll from either executor thread or of the green thread, resumes anything
\* but the record of the other party.
C13_ContextPtrOfOtherParty ==
    /\ fatal # "wild"
    /\ \A i \in Futs :
          /\ tpc[i] = "none" => context_ptr[i] = 0
          /\ (polling[i] # 0 /\ running[i] = "thread") =>
                executor_record(polling[i], context_ptr[i])
          /\ (tpc[i] # "none" /\ running[i] = "executor") =>
                /\ thread_record(i, context_ptr[i])
                /\ context_ptr[i] = sp[i] - CtxSize
                /\ \A t \in Execs : ~executor_record(t, context_ptr[i])

\* A future is in its second poll, on the second executor thread, its green
\* thread running again, while the other future is suspended between polls.
C13_Witness ==
    /\ polling[1] = 2 /\ Len(results[1]) = 1 /\ running[1] = "thread" /\ tpc[1] = "body"
    /\ frame[1].ip = 2
    /\ polling[2] = 0 /\ tpc[2] = "in_yield" /\ thread_record(2, context_ptr[2])

\* The green thread of future i exists and is the party that executes.
OnThread(i) == tpc[i] # "none" /\ polling[i] # 0 /\ running[i] = "thread"

\* C14 as stated: every stack pointer value the green thread has while it
\* executes, the one right after the initial switch into entry included, masks
\* to the base of its own block.
C14_SelfLocationEverySp ==
    \A i \in Futs : OnThread(i) => mask(sp[i]) = Base(i)

\* C14 as amended: right after the initial switch into entry the stack pointer
\* is the end of the block, Base + RAW_SIZE, and masks to that address, not to
\* Base; from the frame of entry on, so wherever TCB::current is called, the
\* stack pointer lies inside the block and masks to Base, and TCB::current
\* finds the future's own TCB.
C14_SelfLocationWhereTaken ==
    /\ fatal # "canary"
    /\ \A i \in Futs :
          OnThread(i) =>
              IF tpc[i] = "entry"
              THEN sp[i] = Top(i) /\ mask(sp[i]) = Base(i) + RAW_SIZE
              ELSE /\ Base(i) <= sp[i] /\ sp[i] < Top(i)
                   /\ mask(sp[i]) = Base(i)
                   /\ current(sp[i]) = i

\* A green thread with the deep frame of entry is about to switch back in its
\* second yield_now, half a block below the top.
C14_Witness ==
    \E i \in Futs :
        /\ OnThread(i) /\ tpc[i] = "yield_switch" /\ frame[i].ip = 2
        /\ sp[i] <= Top(i) - RAW_SIZE \div 2
        /\ Len(results[i]) = 1

\* C15: whatever the block held before, the bootstrap record that the first
\* switch pops has the address of entry in its resumption slot and zero in
\* every other slot.
C15_BootstrapRecordZeroed ==
    \A i \in Futs :
        tpc[i] # "none" =>
            /\ boot[i].rip = "entry"
            /\ \A r \in CalleeSaved : boot[i].regs[r] = 0

\* C16: while no stack write has left the stack region, the canary field of
\* every future holds CANARY, from construction on and in every state, Invalid
\* included, and polls after Ready included: no step writes it, and no
\* assertion of TCB::current fails.
C16_CanaryNeverWritten ==
    /\ fatal # "canary"
    /\ \A i \in Futs : hit[i] = {} => canary[i] = CANARY

\* A future has yielded, parked or handed out its waker twice, has returned
\* Ready and has been polled once more, and its canary has been checked by
\* every one of these calls.
C16_Witness ==
    \E i \in Futs :
        /\ Len(given[i].ops) = 2
        /\ state[i] = Invalid /\ Len(results[i]) > 1 + Cardinality(YieldsAt(given[i]))
        /\ tpc[i] = "entry_end" /\ fatal = "none"

\* C17: when switch has returned inside poll, poll returns Ready(v) exactly if
\* the state is Exited(v), and then leaves Invalid, v moved out once and never
\* again; in any other state take_ret returns None and leaves the state as it
\* is, and poll returns Pending.
C17_ReadyIffExited ==
    [][\A i \in Futs :
          /\ \A s \in {Ready(given[i]), Running, Invalid} :
                take_ret(s) = [ret |-> << >>, state |-> s]
          /\ poll_return(i) =>
                IF state[i].tag = "Exited"
                THEN /\ results'[i] = Append(results[i], ReadyWith(state[i].ret))
                     /\ state'[i] = Invalid
                     /\ released'[i].ret = released[i].ret + 1
                ELSE /\ results'[i] = Append(results[i], Pending)
                     /\ state'[i] = state[i]
                     /\ released'[i] = released[i]
          /\ released[i].ret <= 1
          /\ released[i].ret = 1 <=> state[i] = Invalid]_vars

\* A poll has returned Pending with the state Running, the next one Ready,
\* leaving Invalid.
C17_Witness ==
    \E i \in Futs :
        /\ Len(results[i]) = 2
        /\ results[i][1] = Pending /\ results[i][2] = ReadyWith(given[i].ret)
        /\ state[i] = Invalid /\ released[i].ret = 1
        /\ polling[i] = 0

\* C18: only the poll that finds the state Ready writes the waker slot: from
\* the first poll on the slot holds the waker of the first poll, whatever
\* wakers later polls bring, and the clones current_waker hands out are
\* clones of that waker.
C18_WakerOfFirstPoll ==
    \A i \in Futs :
        /\ waker[i] = IF tpc[i] = "none" THEN << >> ELSE <<Waker(i, 1)>>
        /\ \A w \in WakersOf(i) : held[w] > 0 => w = Waker(i, 1)

\* In a later poll, which brought another waker, the closure has yielded and
\* a clone from current_waker is held.
C18_Witness ==
    \E i \in Futs :
        /\ Len(results[i]) >= 1 /\ polling[i] # 0
        /\ Waker(i, Len(results[i]) + 1) # Waker(i, 1)
        /\ wakes[i] >= 1 /\ held[Waker(i, 1)] = 1

\* C19: entry stores Exited(ret) and then calls yield_now, which wakes the
\* stored waker once more inside the poll that returns Ready: a closure of n
\* yield_now calls and no park has woken n times when its value is stored,
\* n + 1 times when poll returns Ready and never more, and the last wake
\* leaves the task scheduled.
C19_WakeOnExit ==
    \A i \in Futs :
        /\ state[i].tag = "Exited" => polling[i] # 0
        /\ ~Calls(given[i], "park") =>
              LET n == Cardinality(YieldsAt(given[i]))
              IN  /\ wakes[i] <= n + 1
                  /\ (state[i].tag = "Exited" /\ tpc[i] = "exit_yield") => wakes[i] = n
                  /\ wakes[i] = n + 1 =>
                        /\ state[i].tag \in {"Exited", "Invalid"}
                        /\ tpc[i] \in {"yield_switch", "in_yield"}
                        /\ notified[i]
                  /\ Done(i) => wakes[i] = n + 1

\* A closure of one yield_now has made its second wake, the state Exited, and
\* has not yet switched back to the poll that will return Ready.
C19_Witness ==
    \E i \in Futs :
        /\ given[i].ops = <<"yield">>
        /\ state[i].tag = "Exited" /\ tpc[i] = "yield_switch" /\ wakes[i] = 2
        /\ results[i] = <<Pending>> /\ polling[i] # 0

\* C20: for every size of the state field that the assertion of from accepts,
\* the bootstrap record in the last size_of::<ThreadContext>() bytes of the
\* block overlaps no field of the TCB, and the first poll, which writes its
\* resumption slot, leaves the state field (the embedded closure) as it was.
C20_BootstrapRecordInStack ==
    [][\A i \in Futs, t \in Execs :
          (size_ok(size[i]) /\ poll(i, t) /\ state[i].tag = "Ready") =>
              /\ Overlap(i, Top(i) - CtxSize, Top(i)) = {}
              /\ state'[i] = state[i]]_vars

====
